---- MODULE Spec2Model ----
(***************************************************************************)
(* MonsoonViz: the weather dashboard pipeline of dashboard-with-API.py and *)
(* dashboard.py.  One run is: construct the dashboard (output directory,   *)
(* geometry), load the weather tables, render temperature, rainfall and    *)
(* wind, print the completion message.                                     *)
(*                                                                         *)
(* Numbers are fixed point: temperatures and rainfall of the generators in *)
(* thousandths, coordinates in ten-thousandths of a degree.  A DataFrame   *)
(* is a record [kind, cols, rows]; a raised exception is a result record   *)
(* with raised = TRUE, and an exception that escapes a stage of the main   *)
(* program sets pc = "failed".  Plot-library internals (matplotlib,        *)
(* seaborn, plotly) are not modelled beyond the files they write.          *)
(***************************************************************************)
EXTENDS Integers, Sequences, FiniteSets, TLC

VARIABLES
    script,         \* which program runs: WithAPI or Plain
    use_api,        \* the boolean preference given to load_weather_data
    pc,             \* position of the main program
    exc,            \* the exception that escaped, "none" if none
    fail_stage,     \* the stage the exception escaped from
    shp_status,     \* outcome of gpd.read_file on the shapefile
    india_states,   \* self.india_states: sequence of geometry rows
    city_idx,       \* number of cities the API loop has handled
    requests,       \* cities requested from the API, in request order
    api_ok,         \* per handled city, whether its API call succeeded
    last_month,     \* last month index read from the clock, 0 if none
    ticks,          \* month roll-overs seen by the API loop
    temp_data,      \* the loop's temp_data list
    rain_data,      \* the loop's rain_data list
    wind_data,      \* the loop's wind_data list
    temp_status,    \* outcome of reading temperature_data.csv, "unread" if not read
    rain_status,    \* outcome of reading rainfall_data.csv, "unread" if not read
    wind_status,    \* outcome of reading wind_data.csv (dashboard.py), "unread" if not read
    sources_tried,  \* data sources attempted, in order
    result_source,  \* the source whose tables load_weather_data returned
    temp_df,        \* returned temperature table
    rain_df,        \* returned rainfall table
    wind_df,        \* returned wind table, or None
    merged,         \* the geographic join of plot_temperature_heatmap
    rain_pivot,     \* the pivot of plot_rainfall_patterns
    files           \* files written under assets/

vars == <<script, use_api, pc, exc, fail_stage, shp_status, india_states,
          city_idx, requests, api_ok, last_month, ticks, temp_data, rain_data,
          wind_data, temp_status, rain_status, wind_status, sources_tried,
          result_source, temp_df, rain_df, wind_df, merged, rain_pivot, files>>

WithAPI == "dashboard-with-API.py"
Plain == "dashboard.py"

(***************************************************************************)
(* Bounds of the model.                                                    *)
(***************************************************************************)
\* month roll-overs of the clock during one API loop
MaxTicks == 1
\* rows of a shapefile's table in the join specification
MaxGeoRows == 2
\* rows of a temperature CSV in the join specification
MaxTempRows == 2
\* rows of a rainfall CSV in the pivot specification
MaxRainRows == 2

(***************************************************************************)
(* Sequences.                                                              *)
(***************************************************************************)
Range(s) == {s[i] : i \in 1..Len(s)}

RECURSIVE SumSeq(_)
SumSeq(s) == IF s = <<>> THEN 0 ELSE Head(s) + SumSeq(Tail(s))

\* np.repeat(xs, n): each element n times, consecutively
Repeat(xs, n) == [j \in 1..(Len(xs) * n) |-> xs[((j - 1) \div n) + 1]]

\* xs * n on a Python list, np.tile(xs, n) on an array: the whole list n times
Tile(xs, n) == [j \in 1..(Len(xs) * n) |-> xs[((j - 1) % Len(xs)) + 1]]

\* sorted order of the strings the model uses, for the sorts pandas does
LexOrder ==
    <<"Apr", "Aug", "Dec", "Delhi", "Feb", "Jan", "Jul", "Jun", "Karnataka",
      "Kerala", "Maharashtra", "Mar", "May", "Nov", "Oct", "Rajasthan", "Sep",
      "Tamil Nadu", "Tamilnadu", "Uttar Pradesh", "West Bengal", "delhi">>

Sorted(S) == SelectSeq(LexOrder, LAMBDA x : x \in S)

(***************************************************************************)
(* Constants of the programs.                                              *)
(***************************************************************************)
\* STATE_NAMES, a dict: its items in insertion order
STATE_NAMES ==
    << <<"Mumbai", "Maharashtra">>, <<"Delhi", "Delhi">>,
       <<"Bangalore", "Karnataka">>, <<"Chennai", "Tamil Nadu">>,
       <<"Jaipur", "Rajasthan">>, <<"Lucknow", "Uttar Pradesh">>,
       <<"Kolkata", "West Bengal">> >>

\* list(STATE_NAMES.values())
StateValues == [i \in 1..Len(STATE_NAMES) |-> STATE_NAMES[i][2]]

\* the states list dashboard.py writes out
PlainStates ==
    <<"Maharashtra", "Delhi", "Karnataka", "Tamil Nadu",
      "Rajasthan", "Uttar Pradesh", "West Bengal">>

\* months / ordered_months
Months ==
    <<"Jan", "Feb", "Mar", "Apr", "May", "Jun",
      "Jul", "Aug", "Sep", "Oct", "Nov", "Dec">>

\* 1000 * sin(x) for x in np.linspace(0, 2*pi, 12): x = 2*pi*k/11, k = 0..11
SinLinspace == <<0, 541, 910, 990, 756, 282, -282, -756, -990, -910, -541, 0>>

(***************************************************************************)
(* DataFrames.                                                             *)
(***************************************************************************)
None == [kind |-> "none", cols |-> <<>>, rows |-> <<>>]

Frame(cols, rows) == [kind |-> "df", cols |-> cols, rows |-> rows]

\* pd.DataFrame(list of dicts): the columns are the dicts' keys, none for []
FrameOfRecords(cols, rows) ==
    IF rows = <<>> THEN Frame(<<>>, <<>>) ELSE Frame(cols, rows)

IsNone(df) == df.kind = "none"

\* df.empty
IsEmpty(df) == df.rows = <<>> \/ df.cols = <<>>

HasCols(df, cs) == cs \subseteq Range(df.cols)

\* pd.DataFrame(dict of columns): ValueError unless all columns are as long
ColumnsAligned(cols, d) ==
    \A a \in Range(cols), b \in Range(cols) : Len(d[a]) = Len(d[b])

FrameOfColumns(cols, d) ==
    IF ColumnsAligned(cols, d)
    THEN [raised |-> FALSE,
          df |-> Frame(cols, [i \in 1..Len(d[cols[1]]) |->
                                 [c \in Range(cols) |-> d[c][i]]])]
    ELSE [raised |-> TRUE, df |-> None]

Column(df, c) == [i \in 1..Len(df.rows) |-> df.rows[i][c]]

(***************************************************************************)
(* Geometry: _load_india_shapefile.                                        *)
(***************************************************************************)
ShpStatuses == {"ok", "missing", "corrupt"}

GeoRow(state, lat, lon) ==
    [State |-> state, Latitude |-> lat, Longitude |-> lon,
     geometry |-> [x |-> lon, y |-> lat]]

\* the 'State' list of the fallback dict
FallbackState(s) == IF s = WithAPI THEN StateValues ELSE PlainStates

\* the 'Latitude' list of the fallback dict
FallbackLatitude(s) ==
    IF s = WithAPI
    THEN <<197515, 287041, 153173, 130827, 270238, 268467, 229868>>
    ELSE <<197515, 287041, 153173, 111271, 270238, 268467, 229868>>

\* the 'Longitude' list of the fallback dict
FallbackLongitude(s) ==
    IF s = WithAPI
    THEN <<757139, 771025, 757139, 802707, 742179, 809462, 878550>>
    ELSE <<757139, 771025, 757139, 786569, 742179, 809462, 878550>>

\* gpd.GeoDataFrame(states, geometry=gpd.points_from_xy(lon, lat)):
\* ValueError when the lists differ in length
GeoDataFrame(st, lat, lon) ==
    IF Len(st) = Len(lat) /\ Len(lat) = Len(lon)
    THEN [raised |-> FALSE,
          rows |-> [i \in 1..Len(st) |-> GeoRow(st[i], lat[i], lon[i])]]
    ELSE [raised |-> TRUE, rows |-> <<>>]

\* mutant: only a missing file is handled
load_india_shapefile_only_missing(s, status, content) ==
    IF status = "ok" THEN [raised |-> FALSE, rows |-> content]
    ELSE IF status = "corrupt" THEN [raised |-> TRUE, rows |-> <<>>]
    ELSE GeoDataFrame(FallbackState(s), FallbackLatitude(s), FallbackLongitude(s))

\* try: read_file; except Exception (dashboard.py: bare except): fallback
load_india_shapefile(s, status, content) ==
    IF status = "ok" THEN [raised |-> FALSE, rows |-> content]
    ELSE GeoDataFrame(FallbackState(s), FallbackLatitude(s), FallbackLongitude(s))

\* contents a readable shapefile may have in the pipeline specification
ShapefileSamples ==
    { <<GeoRow("Delhi", 287041, 771025), GeoRow("Kerala", 108505, 762711)>>,
      [i \in 1..Len(PlainStates) |->
          GeoRow(PlainStates[i], FallbackLatitude(Plain)[i],
                 FallbackLongitude(Plain)[i])] }

(***************************************************************************)
(* The weather API: _fetch_api_data.                                       *)
(***************************************************************************)
ApiOutcomes ==
    {"ok", "connection_error", "http_error", "json_error", "key_error"}

CityIndex(city) == CHOOSE i \in 1..Len(STATE_NAMES) : STATE_NAMES[i][1] = city

\* the JSON body of a successful response for a city
ApiResponse(city) ==
    LET i == CityIndex(city) IN
    [current |-> [temp_c |-> 20 + i, precip_mm |-> i, wind_kph |-> 10 + i,
                  wind_degree |-> 90 * (i % 4)],
     location |-> [lat |-> 10 + i, lon |-> 70 + i]]

NoWeather ==
    [temp_c |-> 0, precip_mm |-> 0, wind_kph |-> 0, wind_degree |-> 0,
     lat |-> 0, lon |-> 0]

WeatherOf(data) ==
    [temp_c |-> data.current.temp_c, precip_mm |-> data.current.precip_mm,
     wind_kph |-> data.current.wind_kph,
     wind_degree |-> data.current.wind_degree,
     lat |-> data.location.lat, lon |-> data.location.lon]

\* mutant: a missing field is filled with a default instead of raising
fetch_api_data_default_fields(city, outcome) ==
    IF outcome \in {"ok", "key_error"}
    THEN [raised |-> FALSE, none |-> FALSE,
          weather |-> IF outcome = "ok" THEN WeatherOf(ApiResponse(city))
                      ELSE NoWeather]
    ELSE [raised |-> FALSE, none |-> TRUE, weather |-> NoWeather]

\* try: get, raise_for_status, json, field lookups; except Exception: None
fetch_api_data(city, outcome) ==
    IF outcome = "ok"
    THEN [raised |-> FALSE, none |-> FALSE,
          weather |-> WeatherOf(ApiResponse(city))]
    ELSE [raised |-> FALSE, none |-> TRUE, weather |-> NoWeather]

\* np.cos(np.radians(d)) and np.sin(np.radians(d)) at multiples of 90 degrees
CosDeg(d) == CASE d = 0 -> 1 [] d = 90 -> 0 [] d = 180 -> -1 [] d = 270 -> 0

SinDeg(d) == CASE d = 0 -> 0 [] d = 90 -> 1 [] d = 180 -> 0 [] d = 270 -> -1

TempCols == <<"State", "Month", "Avg_Temp", "Latitude">>
ApiTempCols == <<"State", "Month", "Avg_Temp", "Latitude", "Longitude">>
RainCols == <<"State", "Month", "Rainfall">>
WindCols == <<"State", "U", "V", "Latitude", "Longitude">>

ApiTempRow(state, month, w) ==
    [State |-> state, Month |-> month, Avg_Temp |-> w.temp_c,
     Latitude |-> w.lat, Longitude |-> w.lon]

ApiRainRow(state, month, w) ==
    [State |-> state, Month |-> month, Rainfall |-> w.precip_mm]

ApiWindRow(state, w) ==
    [State |-> state, U |-> w.wind_kph * CosDeg(w.wind_degree),
     V |-> w.wind_kph * SinDeg(w.wind_degree),
     Latitude |-> w.lat, Longitude |-> w.lon]

(***************************************************************************)
(* The synthetic generators.                                               *)
(***************************************************************************)
\* draws of np.random.normal(loc=25, scale=5, size=84), in thousandths
NormalSamples ==
    { [j \in 1..84 |-> 25000],
      [j \in 1..84 |-> 25000 + 5000 * ((j % 3) - 1)] }

\* draws of np.random.gamma(shape=2, scale=50, size=84)
GammaSamples ==
    { [j \in 1..84 |-> 100],
      [j \in 1..84 |-> 50 + 40 * (j % 4)] }

\* sin(np.linspace(0, 2*pi, 12) * n): the angles are multiplied, the array
\* keeps its 12 elements
SinScaled(n) == [k \in 1..12 |-> SinLinspace[(((k - 1) * n) % 11) + 1]]

\* dashboard-with-API.py: _generate_sample_data
generate_sample_data ==
    LET states == StateValues
        n == Len(states)
        wave == SinScaled(n)
        t == FrameOfColumns(TempCols,
               [State |-> Repeat(states, 12), Month |-> Tile(Months, n),
                Avg_Temp |-> [j \in 1..Len(wave) |-> 25000 + 10 * wave[j]],
                Latitude |-> Repeat(<<197, 287, 153, 131, 270, 268, 229>>, 12)])
        r == FrameOfColumns(RainCols,
               [State |-> Repeat(states, 12), Month |-> Tile(Months, n),
                Rainfall |-> [j \in 1..Len(wave) |-> 50000 + 25 * wave[j]]])
    IN  [raised |-> t.raised \/ r.raised, temp |-> t.df, rain |-> r.df]

\* dashboard.py: the except branch of load_weather_data
plain_sample_data(normal, gamma) ==
    LET states == PlainStates
        n == Len(states)
        wave == Tile(SinLinspace, n)
        t == FrameOfColumns(TempCols,
               [State |-> Repeat(states, 12), Month |-> Tile(Months, n),
                Avg_Temp |-> normal,
                Latitude |-> Repeat(<<197, 287, 153, 111, 270, 268, 229>>, 12)])
        r == FrameOfColumns(RainCols,
               [State |-> Repeat(states, 12), Month |-> Tile(Months, n),
                Rainfall |-> gamma])
        seasonal(df, c, f(_, _)) ==
            Frame(df.cols, [i \in 1..Len(df.rows) |->
                              [df.rows[i] EXCEPT ![c] = f(@, wave[i])]])
        addwave(v, w) == v + 10 * w
        mulwave(v, w) == v * (1000 + w \div 2)
    IN  IF t.raised \/ r.raised \/ Len(wave) # Len(normal) \/ Len(wave) # Len(gamma)
        THEN [raised |-> TRUE, temp |-> None, rain |-> None]
        ELSE [raised |-> FALSE, temp |-> seasonal(t.df, "Avg_Temp", addwave),
              rain |-> seasonal(r.df, "Rainfall", mulwave)]

(***************************************************************************)
(* Reading CSV files: pd.read_csv.                                         *)
(***************************************************************************)
CsvStatuses == {"ok", "missing", "unreadable", "empty", "unparsable"}

\* the exception pd.read_csv raises
CsvError(status) ==
    CASE status = "missing" -> "FileNotFoundError"
      [] status = "unreadable" -> "PermissionError"
      [] status = "empty" -> "EmptyDataError"
      [] status = "unparsable" -> "ParserError"
      [] OTHER -> "none"

read_csv(status, content) ==
    IF status = "ok"
    THEN [raised |-> FALSE, error |-> "none", df |-> content]
    ELSE [raised |-> TRUE, error |-> CsvError(status), df |-> None]

TempRow(state, month, t) ==
    [State |-> state, Month |-> month, Avg_Temp |-> t, Latitude |-> 0]

RainRow(state, month, r) == [State |-> state, Month |-> month, Rainfall |-> r]

WindCsvCols == <<"Longitude", "Latitude", "U", "V">>

\* contents a readable temperature_data.csv may have in the pipeline specification
TempCsvSamples ==
    { Frame(TempCols, <<TempRow("Delhi", "Jun", 31000)>>),
      Frame(TempCols, [j \in 1..84 |->
          TempRow(Repeat(PlainStates, 12)[j], Tile(Months, 7)[j], 25000)]) }

\* contents a readable rainfall_data.csv may have in the pipeline specification
RainCsvSamples ==
    { Frame(RainCols, <<RainRow("Delhi", "Jul", 200), RainRow("Delhi", "Jun", 90)>>),
      Frame(RainCols, [j \in 1..84 |->
          RainRow(Repeat(PlainStates, 12)[j], Tile(Months, 7)[j], 100)]) }

\* contents a readable wind_data.csv may have: a header alone, or one row
WindCsvSamples ==
    { Frame(WindCsvCols, <<>>),
      Frame(WindCsvCols,
            << [Longitude |-> 77, Latitude |-> 28, U |-> 3, V |-> 4] >>) }

(***************************************************************************)
(* load_weather_data, file and synthetic sources.                          *)
(***************************************************************************)
\* with-API: try: (read_csv, read_csv, None) except FileNotFoundError:
\*           _generate_sample_data()
\* plain:    try: read_csv; read_csv except FileNotFoundError: generate inline
load_from_files(s, ts, tc, rs, rc, normal, gamma) ==
    LET t == read_csv(ts, tc)
        r == read_csv(rs, rc)
        err == IF t.raised THEN t.error ELSE r.error
        synth == IF s = WithAPI THEN generate_sample_data
                 ELSE plain_sample_data(normal, gamma)
    IN  IF err = "none"
        THEN [raised |-> FALSE, error |-> "none", temp |-> t.df, rain |-> r.df,
              tried |-> <<"csv">>, source |-> "csv"]
        ELSE IF err = "FileNotFoundError"
        THEN IF synth.raised
             THEN [raised |-> TRUE, error |-> "ValueError", temp |-> None,
                   rain |-> None, tried |-> <<"csv", "synthetic">>,
                   source |-> "none"]
             ELSE [raised |-> FALSE, error |-> "none", temp |-> synth.temp,
                   rain |-> synth.rain, tried |-> <<"csv", "synthetic">>,
                   source |-> "synthetic"]
        ELSE [raised |-> TRUE, error |-> err, temp |-> None, rain |-> None,
              tried |-> <<"csv">>, source |-> "none"]

(***************************************************************************)
(* load_weather_data, API source: the body of the loop over STATE_NAMES.   *)
(***************************************************************************)
\* mutant: the wind row is appended outside the "if weather:" block
loop_body_wind_unguarded(lists, state, month, r) ==
    [temp |-> IF r.none THEN lists.temp
              ELSE Append(lists.temp, ApiTempRow(state, month, r.weather)),
     rain |-> IF r.none THEN lists.rain
              ELSE Append(lists.rain, ApiRainRow(state, month, r.weather)),
     wind |-> Append(lists.wind, ApiWindRow(state, r.weather))]

\* if weather: append one row to each of the three lists
loop_body(lists, state, month, r) ==
    IF r.none THEN lists
    ELSE [temp |-> Append(lists.temp, ApiTempRow(state, month, r.weather)),
          rain |-> Append(lists.rain, ApiRainRow(state, month, r.weather)),
          wind |-> Append(lists.wind, ApiWindRow(state, r.weather))]

(***************************************************************************)
(* plot_temperature_heatmap: group, average, join to the geometry.         *)
(***************************************************************************)
NaN == [sum |-> 0, n |-> 0]

\* temp_df.groupby('State')['Avg_Temp'].mean(): one row per state, sorted by
\* state; the mean is kept as the exact fraction sum / n
GroupMean(df) ==
    LET states == Sorted(Range(Column(df, "State")))
        of(st) == SelectSeq(df.rows, LAMBDA r : r["State"] = st)
    IN  [i \in 1..Len(states) |->
            [State |-> states[i],
             Avg_Temp |-> [sum |-> SumSeq([j \in 1..Len(of(states[i])) |->
                                              of(states[i])[j]["Avg_Temp"]]),
                           n |-> Len(of(states[i]))]]]

MergedRow(l, t) ==
    [State |-> l.State, Latitude |-> l.Latitude, Longitude |-> l.Longitude,
     geometry |-> l.geometry, Avg_Temp |-> t]

\* mutant: an inner join
RECURSIVE merge_inner(_, _)
merge_inner(L, R) ==
    IF L = <<>> THEN <<>>
    ELSE LET m == SelectSeq(R, LAMBDA r : r.State = Head(L).State)
         IN  [i \in 1..Len(m) |-> MergedRow(Head(L), m[i].Avg_Temp)]
             \o merge_inner(Tail(L), R)

\* with-API: india_states.merge(means, on='State', how='left'): the left rows
\* in order, each once per matching right row, once with NaN if none matches
RECURSIVE merge_left(_, _)
merge_left(L, R) ==
    IF L = <<>> THEN <<>>
    ELSE LET m == SelectSeq(R, LAMBDA r : r.State = Head(L).State)
         IN  (IF m = <<>> THEN <<MergedRow(Head(L), NaN)>>
              ELSE [i \in 1..Len(m) |-> MergedRow(Head(L), m[i].Avg_Temp)])
             \o merge_left(Tail(L), R)

\* plain: india_states.set_index('State').join(means.to_frame()): a left join
\* of the geometry's index on the means' index; State is the result's index
RECURSIVE join_index(_, _)
join_index(L, R) ==
    IF L = <<>> THEN <<>>
    ELSE LET m == SelectSeq(R, LAMBDA r : r.State = Head(L).State)
         IN  (IF m = <<>> THEN <<MergedRow(Head(L), NaN)>>
              ELSE [i \in 1..Len(m) |-> MergedRow(Head(L), m[i].Avg_Temp)])
             \o join_index(Tail(L), R)

\* the join of plot_temperature_heatmap; KeyError when a column is missing
geo_join(s, geo, df) ==
    IF ~HasCols(df, {"State", "Avg_Temp"})
    THEN [raised |-> TRUE, error |-> "KeyError", rows |-> <<>>]
    ELSE [raised |-> FALSE, error |-> "none",
          rows |-> IF s = WithAPI THEN merge_left(geo, GroupMean(df))
                   ELSE join_index(geo, GroupMean(df))]

(***************************************************************************)
(* plot_rainfall_patterns: pivot, then the canonical month order.          *)
(***************************************************************************)
Num(v) == [nan |-> FALSE, val |-> v]

Missing == [nan |-> TRUE, val |-> 0]

NoPivot == [index |-> <<>>, columns |-> <<>>, cells |-> <<>>]

PivotError(e) == [raised |-> TRUE, error |-> e, table |-> NoPivot]

UniquePairs(df) ==
    \A i, j \in 1..Len(df.rows) :
        (df.rows[i]["State"] = df.rows[j]["State"]
         /\ df.rows[i]["Month"] = df.rows[j]["Month"]) => i = j

\* rain_df.pivot(index='State', columns='Month', values='Rainfall'): KeyError
\* without the columns, ValueError on a repeated (State, Month); index and
\* columns come out sorted, a pair with no row is NaN
pivot(df) ==
    IF ~HasCols(df, {"State", "Month", "Rainfall"}) THEN PivotError("KeyError")
    ELSE IF ~UniquePairs(df) THEN PivotError("ValueError")
    ELSE LET index == Sorted(Range(Column(df, "State")))
             columns == Sorted(Range(Column(df, "Month")))
             hit(st, mo) == SelectSeq(df.rows, LAMBDA r :
                                r["State"] = st /\ r["Month"] = mo)
         IN  [raised |-> FALSE, error |-> "none",
              table |-> [index |-> index, columns |-> columns,
                         cells |-> [c \in Range(index) \X Range(columns) |->
                                     IF hit(c[1], c[2]) = <<>> THEN Missing
                                     ELSE Num(hit(c[1], c[2])[1]["Rainfall"])]]]

\* with-API: rain_pivot.reindex(columns=ordered_months, fill_value=0)
reindex_columns(t, ordered) ==
    [raised |-> FALSE, error |-> "none",
     table |-> [index |-> t.index, columns |-> ordered,
                cells |-> [c \in Range(t.index) \X Range(ordered) |->
                            IF c[2] \in Range(t.columns) THEN t.cells[c]
                            ELSE Num(0)]]]

\* plain: rain_pivot[[...]]: KeyError when a listed month is no column
select_columns(t, ordered) ==
    IF ~(Range(ordered) \subseteq Range(t.columns)) THEN PivotError("KeyError")
    ELSE [raised |-> FALSE, error |-> "none",
          table |-> [index |-> t.index, columns |-> ordered,
                     cells |-> [c \in Range(t.index) \X Range(ordered) |->
                                 t.cells[c]]]]

rain_pivot_of(s, df) ==
    LET p == pivot(df)
    IN  IF p.raised THEN p
        ELSE IF s = WithAPI THEN reindex_columns(p.table, Months)
        ELSE select_columns(p.table, Months)

(***************************************************************************)
(* The main program.                                                       *)
(***************************************************************************)
TempFiles == {"assets/temperature_heatmap.png", "assets/temperature_interactive.html"}

RainFiles == {"assets/rainfall_barchart.png", "assets/rainfall_interactive.html"}

WindFile == "assets/wind_patterns.png"

Fail(stage, e) ==
    /\ pc' = "failed"
    /\ exc' = e
    /\ fail_stage' = stage

Init ==
    /\ script \in {WithAPI, Plain}
    /\ use_api \in (IF script = WithAPI THEN BOOLEAN ELSE {FALSE})
    /\ pc = "start"
    /\ exc = "none"
    /\ fail_stage = "none"
    /\ shp_status = "unread"
    /\ india_states = <<>>
    /\ city_idx = 0
    /\ requests = <<>>
    /\ api_ok = <<>>
    /\ last_month = 0
    /\ ticks = 0
    /\ temp_data = <<>>
    /\ rain_data = <<>>
    /\ wind_data = <<>>
    /\ temp_status = "unread"
    /\ rain_status = "unread"
    /\ wind_status = "unread"
    /\ sources_tried = <<>>
    /\ result_source = "none"
    /\ temp_df = None
    /\ rain_df = None
    /\ wind_df = None
    /\ merged = <<>>
    /\ rain_pivot = NoPivot
    /\ files = {}

\* IndiaWeatherDashboard(): os.makedirs, then the geometry
Construct ==
    /\ pc = "start"
    /\ \E mk \in {"ok", "oserror"}, st \in ShpStatuses, content \in ShapefileSamples :
          IF mk = "oserror"
          THEN /\ Fail("construct", "OSError")
               /\ UNCHANGED <<shp_status, india_states>>
          ELSE LET g == load_india_shapefile(script, st, content)
               IN  /\ shp_status' = st
                   /\ IF g.raised
                      THEN /\ Fail("construct", "ValueError")
                           /\ UNCHANGED india_states
                      ELSE /\ india_states' = g.rows
                           /\ pc' = "constructed"
                           /\ UNCHANGED <<exc, fail_stage>>
    /\ UNCHANGED <<script, use_api, city_idx, requests, api_ok, last_month,
                   ticks, temp_data, rain_data, wind_data, temp_status,
                   rain_status, wind_status, sources_tried, result_source,
                   temp_df, rain_df, wind_df, merged, rain_pivot, files>>

\* load_weather_data(use_api=True): the lists are created
LoadBegin ==
    /\ pc = "constructed"
    /\ use_api
    /\ pc' = "fetching"
    /\ sources_tried' = Append(sources_tried, "api")
    /\ temp_data' = <<>>
    /\ rain_data' = <<>>
    /\ wind_data' = <<>>
    /\ UNCHANGED <<script, use_api, exc, fail_stage, shp_status, india_states,
                   city_idx, requests, api_ok, last_month, ticks, temp_status,
                   rain_status, wind_status, result_source, temp_df, rain_df,
                   wind_df, merged, rain_pivot, files>>

\* the months datetime.now() may show at the next reading
ClockReadings ==
    IF last_month = 0 THEN 1..12
    ELSE {last_month} \cup (IF ticks < MaxTicks THEN {(last_month % 12) + 1} ELSE {})

\* one iteration of "for city, state in STATE_NAMES.items()"
FetchCity ==
    /\ pc = "fetching"
    /\ city_idx < Len(STATE_NAMES)
    /\ \E outcome \in ApiOutcomes, m \in ClockReadings :
          LET city == STATE_NAMES[city_idx + 1][1]
              state == STATE_NAMES[city_idx + 1][2]
              r == fetch_api_data(city, outcome)
              lists == loop_body([temp |-> temp_data, rain |-> rain_data,
                                  wind |-> wind_data], state, Months[m], r)
          IN  /\ requests' = Append(requests, city)
              /\ api_ok' = Append(api_ok, outcome = "ok")
              /\ IF r.raised
                 THEN /\ Fail("load", "Exception")
                      /\ UNCHANGED <<city_idx, last_month, ticks, temp_data,
                                     rain_data, wind_data>>
                 ELSE /\ city_idx' = city_idx + 1
                      /\ temp_data' = lists.temp
                      /\ rain_data' = lists.rain
                      /\ wind_data' = lists.wind
                      /\ last_month' = IF r.none THEN last_month ELSE m
                      /\ ticks' = IF r.none \/ last_month = 0 \/ m = last_month
                                  THEN ticks ELSE ticks + 1
                      /\ UNCHANGED <<pc, exc, fail_stage>>
    /\ UNCHANGED <<script, use_api, shp_status, india_states, temp_status,
                   rain_status, wind_status, sources_tried, result_source,
                   temp_df, rain_df, wind_df, merged, rain_pivot, files>>

\* return (pd.DataFrame(temp_data), pd.DataFrame(rain_data), pd.DataFrame(wind_data))
LoadReturn ==
    /\ pc = "fetching"
    /\ city_idx = Len(STATE_NAMES)
    /\ temp_df' = FrameOfRecords(ApiTempCols, temp_data)
    /\ rain_df' = FrameOfRecords(RainCols, rain_data)
    /\ wind_df' = FrameOfRecords(WindCols, wind_data)
    /\ result_source' = "api"
    /\ pc' = "loaded"
    /\ UNCHANGED <<script, use_api, exc, fail_stage, shp_status, india_states,
                   city_idx, requests, api_ok, last_month, ticks, temp_data,
                   rain_data, wind_data, temp_status, rain_status, wind_status,
                   sources_tried, merged, rain_pivot, files>>

\* load_weather_data(use_api=False), and dashboard.py's load_weather_data
LoadFromFiles ==
    /\ pc = "constructed"
    /\ ~use_api
    /\ \E ts \in CsvStatuses, rs \in CsvStatuses, tc \in TempCsvSamples,
          rc \in RainCsvSamples, normal \in NormalSamples, gamma \in GammaSamples :
          LET l == load_from_files(script, ts, tc, rs, rc, normal, gamma)
          IN  /\ temp_status' = ts
              /\ rain_status' = IF ts = "ok" THEN rs ELSE "unread"
              /\ sources_tried' = sources_tried \o l.tried
              /\ result_source' = l.source
              /\ IF l.raised
                 THEN /\ Fail("load", l.error)
                      /\ UNCHANGED <<temp_df, rain_df>>
                 ELSE /\ temp_df' = l.temp
                      /\ rain_df' = l.rain
                      /\ pc' = "loaded"
                      /\ UNCHANGED <<exc, fail_stage>>
    /\ UNCHANGED <<script, use_api, shp_status, india_states, city_idx,
                   requests, api_ok, last_month, ticks, temp_data, rain_data,
                   wind_data, wind_status, wind_df, merged, rain_pivot, files>>

\* plot_temperature_heatmap(temp_data)
PlotTemperatureHeatmap ==
    /\ pc = "loaded"
    /\ LET j == geo_join(script, india_states, temp_df)
       IN  IF j.raised
           THEN /\ Fail("temperature", j.error)
                /\ UNCHANGED <<merged, files>>
           ELSE /\ merged' = j.rows
                /\ files' = files \cup TempFiles
                /\ pc' = "temp_done"
                /\ UNCHANGED <<exc, fail_stage>>
    /\ UNCHANGED <<script, use_api, shp_status, india_states, city_idx,
                   requests, api_ok, last_month, ticks, temp_data, rain_data,
                   wind_data, temp_status, rain_status, wind_status,
                   sources_tried, result_source, temp_df, rain_df, wind_df,
                   rain_pivot>>

\* plot_rainfall_patterns(rain_data)
PlotRainfallPatterns ==
    /\ pc = "temp_done"
    /\ LET p == rain_pivot_of(script, rain_df)
       IN  IF p.raised
           THEN /\ Fail("rainfall", p.error)
                /\ UNCHANGED <<rain_pivot, files>>
           ELSE /\ rain_pivot' = p.table
                /\ files' = files \cup RainFiles
                /\ pc' = "rain_done"
                /\ UNCHANGED <<exc, fail_stage>>
    /\ UNCHANGED <<script, use_api, shp_status, india_states, city_idx,
                   requests, api_ok, last_month, ticks, temp_data, rain_data,
                   wind_data, temp_status, rain_status, wind_status,
                   sources_tried, result_source, temp_df, rain_df, wind_df,
                   merged>>

\* with-API: "if wind_df is None or wind_df.empty: return"
wind_skipped(df) == IsNone(df) \/ IsEmpty(df)

\* with-API: plot_wind_patterns(wind_data)
PlotWindPatterns ==
    /\ pc = "rain_done"
    /\ script = WithAPI
    /\ files' = IF wind_skipped(wind_df) THEN files ELSE files \cup {WindFile}
    /\ pc' = "wind_done"
    /\ UNCHANGED <<script, use_api, exc, fail_stage, shp_status, india_states,
                   city_idx, requests, api_ok, last_month, ticks, temp_data,
                   rain_data, wind_data, temp_status, rain_status, wind_status,
                   sources_tried, result_source, temp_df, rain_df, wind_df,
                   merged, rain_pivot>>

\* plain: plot_wind_patterns() reads wind_data.csv itself and returns only
\* on FileNotFoundError
PlotWindPatternsPlain ==
    /\ pc = "rain_done"
    /\ script = Plain
    /\ \E ws \in CsvStatuses, wc \in WindCsvSamples :
          LET w == read_csv(ws, wc)
          IN  /\ wind_status' = ws
              /\ IF w.raised /\ w.error # "FileNotFoundError"
                 THEN /\ Fail("wind", w.error)
                      /\ UNCHANGED <<wind_df, files>>
                 ELSE /\ wind_df' = w.df
                      /\ files' = IF w.raised THEN files ELSE files \cup {WindFile}
                      /\ pc' = "wind_done"
                      /\ UNCHANGED <<exc, fail_stage>>
    /\ UNCHANGED <<script, use_api, shp_status, india_states, city_idx,
                   requests, api_ok, last_month, ticks, temp_data, rain_data,
                   wind_data, temp_status, rain_status, sources_tried,
                   result_source, temp_df, rain_df, merged, rain_pivot>>

\* the completion message
Finish ==
    /\ pc = "wind_done"
    /\ pc' = "done"
    /\ UNCHANGED <<script, use_api, exc, fail_stage, shp_status, india_states,
                   city_idx, requests, api_ok, last_month, ticks, temp_data,
                   rain_data, wind_data, temp_status, rain_status, wind_status,
                   sources_tried, result_source, temp_df, rain_df, wind_df,
                   merged, rain_pivot, files>>

Next ==
    \/ Construct
    \/ LoadBegin
    \/ FetchCity
    \/ LoadReturn
    \/ LoadFromFiles
    \/ PlotTemperatureHeatmap
    \/ PlotRainfallPatterns
    \/ PlotWindPatterns
    \/ PlotWindPatternsPlain
    \/ Finish

Spec == Init /\ [][Next]_vars

(***************************************************************************)
(* The join of plot_temperature_heatmap on bounded tables: the program     *)
(* after load_weather_data returned tables read from the CSV files, with   *)
(* a geometry read from a shapefile.                                       *)
(***************************************************************************)
SeqsUpTo(S, n) == UNION {[1..k -> S] : k \in 1..n}

JoinGeoTables ==
    SeqsUpTo({GeoRow("Delhi", 287041, 771025), GeoRow("Tamil Nadu", 130827, 802707)},
             MaxGeoRows)

JoinTempTables ==
    {Frame(TempCols, rows) :
        rows \in SeqsUpTo({TempRow(st, "Jun", t) :
                              st \in {"Delhi", "Tamilnadu", "delhi"},
                              t \in {20000, 31000}}, MaxTempRows)}

SmallRainTable ==
    Frame(RainCols, <<RainRow("Delhi", "Jul", 200), RainRow("Delhi", "Jun", 90)>>)

InitJoin ==
    /\ script \in {WithAPI, Plain}
    /\ use_api = FALSE
    /\ pc = "loaded"
    /\ exc = "none"
    /\ fail_stage = "none"
    /\ shp_status = "ok"
    /\ india_states \in JoinGeoTables
    /\ city_idx = 0
    /\ requests = <<>>
    /\ api_ok = <<>>
    /\ last_month = 0
    /\ ticks = 0
    /\ temp_data = <<>>
    /\ rain_data = <<>>
    /\ wind_data = <<>>
    /\ temp_status = "ok"
    /\ rain_status = "ok"
    /\ wind_status = "unread"
    /\ sources_tried = <<"csv">>
    /\ result_source = "csv"
    /\ temp_df \in JoinTempTables
    /\ rain_df = SmallRainTable
    /\ wind_df = None
    /\ merged = <<>>
    /\ rain_pivot = NoPivot
    /\ files = {}

NextJoin == PlotTemperatureHeatmap

SpecJoin == InitJoin /\ [][NextJoin]_vars

(***************************************************************************)
(* The pivot of plot_rainfall_patterns on bounded tables: the program      *)
(* after plot_temperature_heatmap, the rainfall table read from its CSV.   *)
(***************************************************************************)
\* one state's twelve months, December first
ReversedYear ==
    Frame(RainCols, [j \in 1..12 |-> RainRow("Delhi", Months[13 - j], 10 * j)])

PivotRainTables ==
    {Frame(RainCols, rows) :
        rows \in SeqsUpTo({RainRow(st, mo, v) :
                              st \in {"Delhi", "Kerala"},
                              mo \in {"Jul", "Jan", "Dec"},
                              v \in {5, 9}}, MaxRainRows)}
    \cup {ReversedYear}

SmallTempTable == Frame(TempCols, <<TempRow("Delhi", "Jun", 31000)>>)

InitPivot ==
    /\ script \in {WithAPI, Plain}
    /\ use_api = FALSE
    /\ pc = "temp_done"
    /\ exc = "none"
    /\ fail_stage = "none"
    /\ shp_status = "missing"
    /\ india_states = load_india_shapefile(script, "missing", <<>>).rows
    /\ city_idx = 0
    /\ requests = <<>>
    /\ api_ok = <<>>
    /\ last_month = 0
    /\ ticks = 0
    /\ temp_data = <<>>
    /\ rain_data = <<>>
    /\ wind_data = <<>>
    /\ temp_status = "ok"
    /\ rain_status = "ok"
    /\ wind_status = "unread"
    /\ sources_tried = <<"csv">>
    /\ result_source = "csv"
    /\ temp_df = SmallTempTable
    /\ rain_df \in PivotRainTables
    /\ wind_df = None
    /\ merged = geo_join(script, india_states, temp_df).rows
    /\ rain_pivot = NoPivot
    /\ files = TempFiles

NextPivot == PlotRainfallPatterns

SpecPivot == InitPivot /\ [][NextPivot]_vars

(***************************************************************************)
(* Properties.                                                             *)
(***************************************************************************)
States(rows) == [i \in 1..Len(rows) |-> rows[i]["State"]]

\* some city's API call produced data
ApiProduced == TRUE \in Range(api_ok)

\* the states of the cities whose API call succeeded, in STATE_NAMES order
SuccessStates ==
    LET idx == SelectSeq([i \in 1..Len(api_ok) |-> i], LAMBDA i : api_ok[i])
    IN  [k \in 1..Len(idx) |-> STATE_NAMES[idx[k]][2]]

\* C1: load_weather_data tries API, then the CSV files, then the generator,
\* a later source exactly when every earlier one produced no data; the
\* returned tables come from the last source tried.
C1_SourceOrder ==
    pc = "loaded" =>
        /\ ("csv" \in Range(sources_tried)) <=> ~(use_api /\ ApiProduced)
        /\ ("synthetic" \in Range(sources_tried))
              <=> ("csv" \in Range(sources_tried)
                   /\ ~(temp_status = "ok" /\ rain_status = "ok"))
        /\ result_source = sources_tried[Len(sources_tried)]

\* C2: in API mode the state of every city whose call failed is in none of
\* the three returned tables, and no exception escapes load_weather_data.
C2_FailedCityAbsent ==
    /\ (use_api /\ pc = "failed") => fail_stage # "load"
    /\ result_source = "api" =>
          \A i \in 1..Len(STATE_NAMES) :
              ~api_ok[i] =>
                  /\ STATE_NAMES[i][2] \notin Range(States(temp_df.rows))
                  /\ STATE_NAMES[i][2] \notin Range(States(rain_df.rows))
                  /\ STATE_NAMES[i][2] \notin Range(States(wind_df.rows))

C2_Witness ==
    /\ result_source = "api"
    /\ pc = "loaded"
    /\ TRUE \in Range(api_ok)
    /\ FALSE \in Range(api_ok)

\* every (state, month) of the 7 states and 12 months is on exactly one of
\* the table's 84 rows
EachPairOnce(df) ==
    /\ df.kind = "df"
    /\ Len(df.rows) = 84
    /\ \A i \in 1..Len(STATE_NAMES), m \in 1..Len(Months) :
          Cardinality({j \in 1..Len(df.rows) :
                          /\ df.rows[j]["State"] = STATE_NAMES[i][2]
                          /\ df.rows[j]["Month"] = Months[m]}) = 1

\* C3: whenever the generator is used it returns temperature and rainfall
\* tables holding each (state, month) pair exactly once, in both programs.
C3_SyntheticPairsOnce ==
    "synthetic" \in Range(sources_tried) =>
        /\ result_source = "synthetic"
        /\ EachPairOnce(temp_df)
        /\ EachPairOnce(rain_df)

\* C4: whenever reading either CSV file fails, for whatever reason,
\* load_weather_data returns the synthetic tables and raises nothing.
C4_FileFailureFallsThrough ==
    ("csv" \in Range(sources_tried) /\ ~(temp_status = "ok" /\ rain_status = "ok"))
        => /\ result_source = "synthetic"
           /\ ~(pc = "failed" /\ fail_stage = "load")

\* C5: a run of the main program of dashboard-with-API.py that fails, fails
\* in construction or in load_weather_data, never in a render step.
C5_NoFailureAfterLoad ==
    (script = WithAPI /\ use_api /\ pc = "failed")
        => fail_stage \in {"construct", "load"}

\* C6: for a rainfall table with unique (State, Month) pairs, in any row
\* order and with any months present, plot_rainfall_patterns gets a pivot
\* whose columns are the 12 months Jan..Dec and whose cells keep the input's
\* values.
C6_PivotCanonicalMonths ==
    ((pc = "rain_done" \/ (pc = "failed" /\ fail_stage = "rainfall"))
     /\ HasCols(rain_df, {"State", "Month", "Rainfall"}) /\ UniquePairs(rain_df))
        => /\ pc = "rain_done"
           /\ rain_pivot.columns = Months
           /\ \A i \in 1..Len(rain_df.rows) :
                 rain_pivot.cells[<<rain_df.rows[i]["State"], rain_df.rows[i]["Month"]>>]
                     = Num(rain_df.rows[i]["Rainfall"])

\* the wind data is absent (None, wind_data.csv missing) or has no rows
WindAbsentOrEmpty ==
    IF script = WithAPI THEN IsNone(wind_df) \/ IsEmpty(wind_df)
    ELSE wind_status = "missing" \/ (wind_status = "ok" /\ wind_df.rows = <<>>)

\* C7: with the wind data absent or empty the wind renderer returns without
\* raising and without writing assets/wind_patterns.png.
C7_WindSkipped ==
    ((pc \in {"wind_done", "done"} \/ (pc = "failed" /\ fail_stage = "wind"))
     /\ WindAbsentOrEmpty)
        => /\ pc # "failed"
           /\ WindFile \notin files

\* C8: when reading the shapefile fails, _load_india_shapefile raises
\* nothing and returns one entry (state, latitude, longitude, point) for
\* each of the 7 states, built from three lists of length 7.
C8_FallbackTable ==
    shp_status \in {"missing", "corrupt"} =>
        /\ ~(pc = "failed" /\ fail_stage = "construct")
        /\ Len(FallbackState(script)) = 7
        /\ Len(FallbackLatitude(script)) = 7
        /\ Len(FallbackLongitude(script)) = 7
        /\ Len(india_states) = 7
        /\ \A i \in 1..Len(STATE_NAMES) :
              Cardinality({j \in 1..Len(india_states) :
                              india_states[j].State = STATE_NAMES[i][2]}) = 1
        /\ \A j \in 1..Len(india_states) :
              /\ india_states[j].Latitude = FallbackLatitude(script)[j]
              /\ india_states[j].Longitude = FallbackLongitude(script)[j]
              /\ india_states[j].geometry
                    = [x |-> india_states[j].Longitude, y |-> india_states[j].Latitude]

C8_Witness ==
    /\ pc = "constructed"
    /\ shp_status = "corrupt"
    /\ Len(india_states) = 7

\* the temperatures on the rows of temp_df whose State is exactly st
TempsOf(st) ==
    LET rows == SelectSeq(temp_df.rows, LAMBDA r : r["State"] = st)
    IN  [j \in 1..Len(rows) |-> rows[j]["Avg_Temp"]]

\* C9: the join matches by exact state name and raises nothing on a
\* mismatch: every geometry row is in the merged table exactly once, in
\* order, with the mean of the identically named state or a missing value,
\* and a metric state that names no geometry row is not in the merged table.
C9_JoinByExactName ==
    /\ (pc = "failed" /\ fail_stage = "temperature")
          => ~HasCols(temp_df, {"State", "Avg_Temp"})
    /\ pc = "temp_done" =>
          /\ Len(merged) = Len(india_states)
          /\ \A i \in 1..Len(merged) :
                /\ merged[i].State = india_states[i].State
                /\ merged[i].geometry = india_states[i].geometry
                /\ merged[i].Avg_Temp =
                      IF TempsOf(india_states[i].State) = <<>> THEN NaN
                      ELSE [sum |-> SumSeq(TempsOf(india_states[i].State)),
                            n |-> Len(TempsOf(india_states[i].State))]
          /\ \A st \in Range(States(temp_df.rows)) :
                st \notin Range(States(india_states))
                    => st \notin Range(States(merged))

C9_Witness ==
    /\ pc = "temp_done"
    /\ \E i \in 1..Len(merged) : merged[i].Avg_Temp = NaN
    /\ \E i \in 1..Len(merged) : merged[i].Avg_Temp # NaN
    /\ \E st \in Range(States(temp_df.rows)) : st \notin Range(States(merged))

\* C10: in API mode the cities are requested once each in STATE_NAMES order,
\* and the three tables hold the same rows' states: one row per successful
\* city, in STATE_NAMES order.
C10_OneRowPerSuccess ==
    use_api =>
        /\ Len(requests) <= Len(STATE_NAMES)
        /\ \A i \in 1..Len(requests) : requests[i] = STATE_NAMES[i][1]
        /\ States(temp_data) = SuccessStates
        /\ States(rain_data) = SuccessStates
        /\ States(wind_data) = SuccessStates
        /\ result_source = "api" =>
              /\ Len(requests) = Len(STATE_NAMES)
              /\ States(temp_df.rows) = SuccessStates
              /\ States(rain_df.rows) = SuccessStates
              /\ States(wind_df.rows) = SuccessStates

C10_Witness ==
    /\ result_source = "api"
    /\ pc = "loaded"
    /\ Len(temp_df.rows) = 3
    /\ ~api_ok[1]
    /\ api_ok[2]

====
